---- MODULE Spec2Model ----
(***************************************************************************)
(* A model of package glsymbol: TrueType glyphs are rasterised into a      *)
(* sprite sheet, packed into 1-bit-per-pixel rows and drawn with the       *)
(* OpenGL bitmap primitive.                                                *)
(*                                                                         *)
(* The repository holds two builds of the package: the bitmap build        *)
(* (src/glsymbol.go, lines 542-812: Printf calls gl.Bitmap) and the        *)
(* display-list build (src/unnamed/part_002: loadFont compiles one list    *)
(* per glyph, Printf calls gl.CallLists, and Metrics exists).  The         *)
(* variable "variant" says which build runs.                               *)
(***************************************************************************)
EXTENDS Integers, Sequences, FiniteSets, TLC

VARIABLES
    variant,    \* "bitmap" or "lists": the build of the package
    fonts,      \* FontIds -> NoFont or a Font value (the *Font objects)
    glError,    \* the error flag of the OpenGL context (gl.GetError)
    glLists,    \* display-list id -> its compiled content (allocated ids)
    glMaxKey,   \* the largest display-list id in use so far
    released,   \* the fonts whose Release has returned (history)
    last        \* the call that has just finished: its arguments, result and
                \* GL traffic; Idle once the caller has taken the result

vars == <<variant, fonts, glError, glLists, glMaxKey, released, last>>

----------------------------------------------------------------------------
(* Bounds of the model. *)

MaxLen == 2          \* longest string handed to Printf / Metrics
MaxBits == 9         \* longest sequence of booleans handed to the bit packer
MaxGlyphs == 34      \* largest high-low+1 the layout loop is run on
MaxBox == 3          \* largest width and height of the font's bounding box
MaxSpan == 1         \* largest high-low handed to LoadTruetype
Pow2Spread == 1      \* Pow2 is tried on 2^k-Pow2Spread .. 2^k+Pow2Spread

FontIds == {1, 2}
Variants == {"bitmap", "lists"}
Lows == {32, 200}
TextRunes == {10, 32, 33, 200}
Points == {<<21, 41>>}               \* (x, y) in half pixels: 10.5, 20.5

----------------------------------------------------------------------------
(* Program constants. *)

NO_ERROR == 0
GLErrnos == {NO_ERROR, 1281, 1282}   \* GL_INVALID_VALUE, GL_INVALID_OPERATION

GenListsRange == 128
glyphsPerRow == 16
InkThreshold == 40000
DefaultLow == 32
DefaultHigh == 127

Nil == [nil |-> TRUE]
NoFont == [absent |-> TRUE]      \* fonts[id] before the call that sets it
NilFont == [nilFont |-> TRUE]    \* a nil *Font

----------------------------------------------------------------------------
(* uint32 arithmetic.  A uint32 is a pair of 16-bit words [hi, lo].        *)

Word == 2 ^ 16

U32(n) == [hi |-> (n \div Word) % Word, lo |-> n % Word]

\* value of a uint32 below 2^31 as an integer
IntOf(u) == u.hi * Word + u.lo

RECURSIVE BitOr(_, _)
BitOr(a, b) ==
    IF a = 0 THEN b
    ELSE IF b = 0 THEN a
    ELSE (IF a % 2 = 1 \/ b % 2 = 1 THEN 1 ELSE 0) + 2 * BitOr(a \div 2, b \div 2)

\* x-- on uint32
Dec32(u) ==
    IF u.lo > 0 THEN [hi |-> u.hi, lo |-> u.lo - 1]
    ELSE IF u.hi > 0 THEN [hi |-> u.hi - 1, lo |-> Word - 1]
    ELSE [hi |-> Word - 1, lo |-> Word - 1]

\* x + 1 on uint32
Inc32(u) ==
    IF u.lo < Word - 1 THEN [hi |-> u.hi, lo |-> u.lo + 1]
    ELSE IF u.hi < Word - 1 THEN [hi |-> u.hi + 1, lo |-> 0]
    ELSE [hi |-> 0, lo |-> 0]

\* x >> k for 1 <= k <= 16
Shr32(u, k) ==
    [hi |-> u.hi \div (2 ^ k),
     lo |-> (u.lo \div (2 ^ k)) + (u.hi % (2 ^ k)) * (2 ^ (16 - k))]

\* x |= x >> k
OrShr(u, k) ==
    LET s == Shr32(u, k)
    IN  [hi |-> BitOr(u.hi, s.hi), lo |-> BitOr(u.lo, s.lo)]

\* a Pow2 that forgets the last step  x |= x >> 16
Pow2NoShift16(x) ==
    Inc32(OrShr(OrShr(OrShr(OrShr(Dec32(x), 1), 2), 4), 8))

Pow2(x) ==
    Inc32(OrShr(OrShr(OrShr(OrShr(OrShr(Dec32(x), 1), 2), 4), 8), 16))

----------------------------------------------------------------------------
(* The font file.  A stream either fails to read, fails to parse, or holds *)
(* a TrueType font; of a font the package uses its bounding box            *)
(* (ttf.Bounds), its advance widths (ttf.HMetric) and what DrawString      *)
(* rasterises (ink).  Fonts are well formed: Max >= Min in the bounding    *)
(* box.                                                                    *)

ReadErr == [kind |-> "readErr"]
ParseErr == [kind |-> "parseErr"]
TTF(bw, bh, adv, ink) == [kind |-> "ttf", bw |-> bw, bh |-> bh, adv |-> adv, ink |-> ink]

ProggyClean == TTF(7, 8, 6, 1)
TTFs == {TTF(0, 0, 0, 0), TTF(9, 1, 5, 1)}
Streams == {ReadErr, ParseErr} \cup TTFs

\* int32(metric.AdvanceWidth) of rune ch
AdvanceWidth(ttf, ch) == ttf.adv + (ch % 3)

\* the red channel (16 bit) DrawString left at pixel (px, py) of the sheet
Ink(ink, px, py) ==
    LET v == (px + 2 * py + ink) % 4
    IN  CASE v = 0 -> 0
          [] v = 1 -> InkThreshold
          [] v = 2 -> InkThreshold + 1
          [] OTHER -> 65535

\* img.At(px, py).RGBA() red: zero outside the image rectangle
RedAt(img, px, py) ==
    IF 0 <= px /\ px < img.w /\ 0 <= py /\ py < img.h
    THEN Ink(img.ink, px, py)
    ELSE 0

----------------------------------------------------------------------------
(* Bit packing of one glyph (the block "prepare bitmap data" of loadFont,  *)
(* function get of the display-list build).                                *)

\* the inner loop over x of one row y; u is the byte being filled
RECURSIVE PackRow(_, _, _, _, _)
PackRow(img, glyph, y, x, u) ==
    IF x >= glyph.Width THEN <<>>
    ELSE LET h == x % 8
             u2 == IF InkThreshold < RedAt(img, x + glyph.X, y + glyph.Y)
                   THEN u + 2 ^ (7 - h)
                   ELSE u
         IN  IF h = 7 \/ x = glyph.Width - 1
             THEN <<u2>> \o PackRow(img, glyph, y, x + 1, 0)
             ELSE PackRow(img, glyph, y, x + 1, u2)

\* the outer loop: for y := glyph.Height; 0 <= y; y--
RECURSIVE PackRows(_, _, _)
PackRows(img, glyph, y) ==
    IF y < 0 THEN <<>>
    ELSE PackRow(img, glyph, y, 0, 0) \o PackRows(img, glyph, y - 1)

get(img, glyph) == PackRows(img, glyph, glyph.Height)

----------------------------------------------------------------------------
(* OpenGL display lists. *)

EmptyList == [w |-> 0, h |-> 0, data |-> <<>>]

ListIds(lists) == DOMAIN lists

\* gl.GenLists(n): a block of n unused ids, taken above the largest id the
\* context has handed out or seen so far
GenLists(maxKey, n) == maxKey + 1

Reserve(lists, base, n) ==
    [k \in ListIds(lists) \cup base..(base + n - 1) |->
        IF k \in ListIds(lists) THEN lists[k] ELSE EmptyList]

\* gl.DeleteLists(base, n)
DeleteLists(lists, base, n) ==
    [k \in ListIds(lists) \ base..(base + n - 1) |-> lists[k]]

----------------------------------------------------------------------------
(* LoadTruetype and loadFont. *)

NewGlyph(x, y, w, h, adv) ==
    [X |-> x, Y |-> y, Width |-> w, Height |-> h, Advance |-> adv,
     BitmapData |-> <<>>]

\* a layout loop that starts a new row every 32 glyphs
RECURSIVE LayoutGlyphsWide(_, _, _, _, _, _, _, _)
LayoutGlyphsWide(ttf, ch, high, gi, gx, gy, gw, gh) ==
    IF ch > high THEN <<>>
    ELSE LET g == NewGlyph(gx, gy - (gh \div 2), gw, gh, AdvanceWidth(ttf, ch))
             gx2 == IF gi % 32 = 0 THEN 0 ELSE gx + gw
             gy2 == IF gi % 32 = 0 THEN gy + gh ELSE gy
         IN  <<g>> \o LayoutGlyphsWide(ttf, ch + 1, high, gi + 1, gx2, gy2, gw, gh)

\* a layout loop that forgets  gy += gh
RECURSIVE LayoutGlyphsFlat(_, _, _, _, _, _, _, _)
LayoutGlyphsFlat(ttf, ch, high, gi, gx, gy, gw, gh) ==
    IF ch > high THEN <<>>
    ELSE LET g == NewGlyph(gx, gy - (gh \div 2), gw, gh, AdvanceWidth(ttf, ch))
             gx2 == IF gi % 16 = 0 THEN 0 ELSE gx + gw
         IN  <<g>> \o LayoutGlyphsFlat(ttf, ch + 1, high, gi + 1, gx2, gy, gw, gh)

\* the loop  for ch := low; ch <= high; ch++  of LoadTruetype: the glyph
\* records of ch..high, glyph ch being drawn at cell (gx, gy)
RECURSIVE LayoutGlyphs(_, _, _, _, _, _, _, _)
LayoutGlyphs(ttf, ch, high, gi, gx, gy, gw, gh) ==
    IF ch > high THEN <<>>
    ELSE LET g == NewGlyph(gx, gy - (gh \div 2), gw, gh, AdvanceWidth(ttf, ch))
             gx2 == IF gi % 16 = 0 THEN 0 ELSE gx + gw
             gy2 == IF gi % 16 = 0 THEN gy + gh ELSE gy
         IN  <<g>> \o LayoutGlyphs(ttf, ch + 1, high, gi + 1, gx2, gy2, gw, gh)

\* the sprite sheet: image.NewRGBA(image.Rect(0, 0, iw, ih)) after DrawString
SpriteSheet(ttf, gc) ==
    LET glyphsPerCol == (gc \div glyphsPerRow) + 1
        gw == ttf.bw
        gh == ttf.bh + 5
    IN  [w |-> IntOf(Pow2(U32(gw * glyphsPerRow))),
         h |-> IntOf(Pow2(U32(gh * glyphsPerCol))),
         ink |-> ttf.ink]

\* the FontConfig LoadTruetype hands to loadFont
BuildConfig(ttf, low, high) ==
    [Low |-> low, High |-> high,
     Glyphs |-> LayoutGlyphs(ttf, low, high, 0, 0, 0, ttf.bw, ttf.bh + 5)]

\* LoadTruetype returns nil and the error before anything else happens
LoadFailsOnReadOnly(stream) == stream.kind = "readErr"

LoadFails(stream) == stream.kind \in {"readErr", "parseErr"}

\* what truetype.Parse leaves behind when its error is ignored
Unparsed == TTF(1, 0, 0, 0)

\* a loadFont loop that stops one glyph earlier
LoopCountShort(config) == config.High - config.Low - 1

\* the bound of  for i := 0; i < int(config.High-config.Low); i++
LoopCount(config) == config.High - config.Low

\* the iterations the glyph loop of loadFont completes: all LoopCount of
\* them, unless the display-list build panics on  &letters[0]  of an empty
\* bitmap; then the ones before that glyph
Completed(v, img, config) ==
    LET all == 1..LoopCount(config)
        bad == {i \in all : get(img, config.Glyphs[i]) = <<>>}
    IN  IF v = "lists" /\ bad # {}
        THEN {i \in all : \A k \in bad : i < k}
        ELSE all

\* the glyph loop of loadFont: [glyphs, mw, mh, panic, n, calls]; n counts
\* the lists compiled and calls the OpenGL calls made
LoadLoop(v, img, config) ==
    LET done == Completed(v, img, config)
        panic == done # 1..LoopCount(config)
        \* get and the two maxima run before the panic of an iteration
        seen == IF panic THEN 1..(Cardinality(done) + 1) ELSE done
    IN  [glyphs |-> [i \in 1..Len(config.Glyphs) |->
                        IF i \in seen
                        THEN [config.Glyphs[i] EXCEPT
                                 !.BitmapData = get(img, config.Glyphs[i])]
                        ELSE config.Glyphs[i]],
         mw |-> IF \E i \in seen : config.Glyphs[i].Width > 0
                THEN CHOOSE w \in {config.Glyphs[i].Width : i \in seen} :
                        \A i \in seen : config.Glyphs[i].Width <= w
                ELSE 0,
         mh |-> IF \E i \in seen : config.Glyphs[i].Height > 0
                THEN CHOOSE h \in {config.Glyphs[i].Height : i \in seen} :
                        \A i \in seen : config.Glyphs[i].Height <= h
                ELSE 0,
         panic |-> panic,
         n |-> IF v = "lists" THEN Cardinality(done) ELSE 0,
         calls |-> IF v = "lists"
                   THEN 3 + 3 * Cardinality(done) + (IF panic THEN 1 ELSE 0)
                   ELSE 2]

\* LoadTruetype up to the OpenGL side of loadFont: the sprite sheet, the
\* glyph records and the glyph loop, in build v
Rasterize(v, ttf, low, high) ==
    LoadLoop(v, SpriteSheet(ttf, high - low + 1), BuildConfig(ttf, low, high))

\* the lists the glyph loop compiled: gl.NewList(FontOffset+j) for the first
\* n glyphs, j counting up from Low
NewLists(lists, offset, low, glyphs, n) ==
    LET ids == (offset + low)..(offset + low + n - 1)
    IN  [k \in ListIds(lists) \cup ids |->
            IF k \in ids
            THEN LET g == glyphs[k - offset - low + 1]
                 IN  [w |-> g.Width, h |-> g.Height, data |-> g.BitmapData]
            ELSE lists[k]]

\* loadFont(img, config) in build v with the display lists "lists", st being
\* the outcome of its glyph loop: [panic, f, lists, calls]
loadFont(v, low, high, st, lists, maxKey) ==
    LET offset == IF v = "lists" THEN GenLists(maxKey, GenListsRange) ELSE 0
        top == offset + GenListsRange - 1
        topList == offset + low + st.n - 1
    IN  [panic |-> st.panic,
         maxKey |-> IF v = "bitmap" THEN maxKey
                    ELSE IF top < topList THEN topList ELSE top,
         f |-> [Config |-> [Low |-> low, High |-> high, Glyphs |-> st.glyphs],
                MaxGlyphWidth |-> st.mw, MaxGlyphHeight |-> st.mh,
                FontOffset |-> offset],
         lists |-> IF v = "lists"
                   THEN NewLists(Reserve(lists, offset, GenListsRange), offset, low,
                                 st.glyphs, st.n)
                   ELSE lists,
         calls |-> IF st.panic THEN st.calls ELSE st.calls + 1]

\* GlyphBounds()
GlyphBounds(f) == <<f.MaxGlyphWidth, f.MaxGlyphHeight>>

----------------------------------------------------------------------------
(* Release, Metrics, Printf. *)

\* a Release that leaves the Config in place
KeepConfig(f) == f

\* f.Config = nil
DropConfig(f) == [f EXCEPT !.Config = Nil]

\* an advanceSize that takes r > 0 for r >= 0
RECURSIVE advanceSizeStrict(_, _)
advanceSizeStrict(f, line) ==
    IF line = <<>> THEN 0
    ELSE LET r == Head(line) - f.Config.Low
         IN  (IF r > 0 /\ r < Len(f.Config.Glyphs)
              THEN f.Config.Glyphs[r + 1].Advance
              ELSE f.MaxGlyphWidth) + advanceSizeStrict(f, Tail(line))

\* advanceSize(line); f.Config is not nil
RECURSIVE advanceSize(_, _)
advanceSize(f, line) ==
    IF line = <<>> THEN 0
    ELSE LET r == Head(line) - f.Config.Low
         IN  (IF r >= 0 /\ r < Len(f.Config.Glyphs)
              THEN f.Config.Glyphs[r + 1].Advance
              ELSE f.MaxGlyphWidth) + advanceSize(f, Tail(line))

\* number of bytes of rune r in a Go string (UTF-8)
Utf8Len(r) == IF r < 128 THEN 1 ELSE IF r < 2048 THEN 2 ELSE IF r < 65536 THEN 3 ELSE 4

\* int32(x) of a non-negative float32 given in half pixels
Int32OfFloat(c) == c \div 2

\* the loop  for ib, b := range str  of Printf, from the k-th rune on, ib
\* being the byte offset of that rune: st = [draws, panic, calls]
RECURSIVE PrintLoop(_, _, _, _, _, _, _, _, _)
PrintLoop(v, f, lists, x, y, str, k, ib, st) ==
    IF k > Len(str) \/ st.panic THEN st
    ELSE IF f.Config = Nil THEN [st EXCEPT !.panic = TRUE]
    ELSE LET b == str[k]
             i == b - f.Config.Low
         IN  IF i < 0 \/ i >= Len(f.Config.Glyphs) THEN [st EXCEPT !.panic = TRUE]
             ELSE LET g == f.Config.Glyphs[i + 1]
                      px == Int32OfFloat(x) + g.Width * ib
                      py == Int32OfFloat(y)
                  IN  IF v = "bitmap"
                      THEN IF g.BitmapData = <<>>
                           THEN [st EXCEPT !.panic = TRUE, !.calls = @ + 1]
                           ELSE PrintLoop(v, f, lists, x, y, str, k + 1, ib + Utf8Len(b),
                                   [st EXCEPT !.calls = @ + 2,
                                      !.draws = Append(@, [x |-> px, y |-> py, w |-> g.Width,
                                                           h |-> g.Height, data |-> g.BitmapData])])
                      ELSE LET id == f.FontOffset + (b % 256)
                               l == IF id \in ListIds(lists) THEN lists[id] ELSE EmptyList
                           IN  PrintLoop(v, f, lists, x, y, str, k + 1, ib + Utf8Len(b),
                                   [st EXCEPT !.calls = @ + 3,
                                      !.draws = Append(@, [x |-> px, y |-> py, w |-> l.w,
                                                           h |-> l.h, data |-> l.data])])

\* the OpenGL calls of Printf up to checkGLError: [draws, panic, calls]
PrintfBody(v, f, lists, x, y, str) ==
    LET st == PrintLoop(v, f, lists, x, y, str, 1, 0,
                 [draws |-> <<>>, panic |-> FALSE,
                  calls |-> IF v = "lists" THEN 1 ELSE 0])
    IN  IF v = "lists" /\ ~st.panic THEN [st EXCEPT !.calls = @ + 1] ELSE st

\* the error flag after OpenGL calls that raise errno e (NO_ERROR: none):
\* the context keeps the first error until gl.GetError reads it
Raise(flag, e) == IF flag # NO_ERROR THEN flag ELSE e

\* a checkGLError that never reports
checkGLErrorSilent(errno) == "nil"

\* checkGLError() with errno := gl.GetError(): nil, or
\* fmt.Errorf("GL error: %d", errno)
checkGLError(errno) ==
    IF errno = NO_ERROR THEN "nil" ELSE "GL error: " \o ToString(errno)

----------------------------------------------------------------------------
(* The state machine. *)

Texts == UNION {[1..n -> TextRunes] : n \in 0..MaxLen}

\* a finished call: outcome "ok" (it returned) or "panic"; err the error it
\* returned; draws the glyph draws and calls the number of OpenGL calls it
\* issued; ret what else it returned
Call(op, f, args, outcome, err, draws, calls, ret) ==
    [op |-> op, f |-> f, args |-> args, outcome |-> outcome, err |-> err,
     draws |-> draws, calls |-> calls, ret |-> ret]

NoArgs == [none |-> TRUE]

\* no call is being reported
Idle == Call("none", 0, NoArgs, "ok", "nil", <<>>, 0, NoArgs)

Init ==
    /\ variant \in Variants
    /\ fonts = [id \in FontIds |-> NoFont]
    /\ glError = NO_ERROR
    /\ glLists = <<>>
    /\ glMaxKey = 0
    /\ released = {}
    /\ last = Idle

\* the font truetype.Parse returns
ParsedFont(stream) == IF stream.kind = "ttf" THEN stream ELSE Unparsed

\* the arguments LoadTruetype is called with
LoadInputs ==
    {<<ParsedFont(stream), low, low + d>> : stream \in Streams, low \in Lows, d \in 0..MaxSpan}
    \cup {<<ProggyClean, DefaultLow, DefaultHigh>>}

\* Rasterize of every call, computed once: pairs <<build and arguments, outcome>>
FontTable ==
    {<<<<v, in>>, Rasterize(v, in[1], in[2], in[3])>> : v \in Variants, in \in LoadInputs}

Rasterized(v, ttf, low, high) ==
    (CHOOSE p \in FontTable : p[1] = <<v, <<ttf, low, high>>>>)[2]

\* LoadTruetype(r, scale, low, high) storing its *Font in fonts[id]; e is
\* the error the OpenGL calls of loadFont raise
Load(op, id, stream, low, high, e) ==
    /\ last = Idle
    /\ fonts[id] = NoFont
    /\ \A k \in FontIds : k < id => fonts[k] # NoFont
    /\ low <= high
    /\ UNCHANGED released
    /\ LET args == [stream |-> stream, low |-> low, high |-> high]
       IN  IF LoadFails(stream)
           THEN /\ last' = Call(op, id, args, "ok", stream.kind, <<>>, 0, [font |-> NilFont])
                /\ fonts' = [fonts EXCEPT ![id] = NilFont]
                /\ UNCHANGED <<glError, glLists, glMaxKey>>
           ELSE LET r == loadFont(variant, low, high,
                                   Rasterized(variant, ParsedFont(stream), low, high),
                                   glLists, glMaxKey)
                    flag == Raise(glError, e)
                IN  /\ glLists' = r.lists
                    /\ glMaxKey' = r.maxKey
                    /\ IF r.panic
                       THEN /\ last' = Call(op, id, args, "panic", "nil", <<>>, r.calls, NoArgs)
                            /\ glError' = flag
                            /\ fonts' = [fonts EXCEPT ![id] = NilFont]
                       ELSE /\ last' = Call(op, id, args, "ok", checkGLError(flag), <<>>,
                                            r.calls, [font |-> r.f, errno |-> flag])
                            /\ glError' = NO_ERROR
                            /\ fonts' = [fonts EXCEPT ![id] = r.f]
    /\ UNCHANGED variant

LoadTruetype(id, stream, low, high, e) ==
    Load("LoadTruetype", id, stream, low, high, e)

DefaultFont(id, e) ==
    Load("DefaultFont", id, ProggyClean, DefaultLow, DefaultHigh, e)

\* f.Release()
Release(id, e) ==
    /\ last = Idle
    /\ fonts[id] \notin {NoFont, NilFont}
    /\ LET f == fonts[id]
       IN  IF variant = "bitmap"
           THEN /\ fonts' = [fonts EXCEPT ![id] = DropConfig(f)]
                /\ released' = released \cup {id}
                /\ last' = Call("Release", id, NoArgs, "ok", "nil", <<>>, 0, NoArgs)
                /\ UNCHANGED <<glError, glLists>>
           ELSE IF f.Config = Nil
           THEN \* len(f.Config.Glyphs) on a nil Config
                /\ last' = Call("Release", id, NoArgs, "panic", "nil", <<>>, 0, NoArgs)
                /\ UNCHANGED <<fonts, glError, glLists, released>>
           ELSE /\ glLists' = DeleteLists(glLists, f.FontOffset, Len(f.Config.Glyphs))
                /\ glError' = Raise(glError, e)
                /\ fonts' = [fonts EXCEPT ![id] = DropConfig(f)]
                /\ released' = released \cup {id}
                /\ last' = Call("Release", id, NoArgs, "ok", "nil", <<>>, 1, NoArgs)
    /\ UNCHANGED <<variant, glMaxKey>>

\* f.Metrics(text), display-list build
Metrics(id, text) ==
    /\ last = Idle
    /\ variant = "lists"
    /\ fonts[id] \notin {NoFont, NilFont}
    /\ LET f == fonts[id]
           args == [text |-> text]
       IN  IF Len(text) = 0
           THEN last' = Call("Metrics", id, args, "ok", "nil", <<>>, 0, <<0, 0>>)
           ELSE IF f.Config = Nil
           THEN last' = Call("Metrics", id, args, "panic", "nil", <<>>, 0, NoArgs)
           ELSE last' = Call("Metrics", id, args, "ok", "nil", <<>>, 0,
                             <<advanceSize(f, text), f.MaxGlyphHeight>>)
    /\ UNCHANGED <<variant, fonts, glError, glLists, glMaxKey, released>>

\* a Printf that frees the bitmap of every glyph it has drawn
PrintfFreeing(id, pt, str, e) ==
    /\ last = Idle
    /\ fonts[id] \notin {NoFont, NilFont}
    /\ LET f == fonts[id]
           args == [x |-> pt[1], y |-> pt[2], str |-> str]
           r == PrintfBody(variant, f, glLists, pt[1], pt[2], str)
           flag == IF r.calls = 0 THEN glError ELSE Raise(glError, e)
           drawn == {str[k] - f.Config.Low + 1 : k \in 1..Len(r.draws)}
       IN  /\ IF r.panic
              THEN /\ last' = Call("Printf", id, args, "panic", "nil", r.draws, r.calls, NoArgs)
                   /\ glError' = flag
              ELSE /\ last' = Call("Printf", id, args, "ok", checkGLError(flag), r.draws,
                                   r.calls + 1, [errno |-> flag])
                   /\ glError' = NO_ERROR
           /\ fonts' = IF r.draws = <<>> THEN fonts
                       ELSE [fonts EXCEPT ![id].Config.Glyphs =
                                [i \in 1..Len(f.Config.Glyphs) |->
                                    IF i \in drawn
                                    THEN [f.Config.Glyphs[i] EXCEPT !.BitmapData = <<>>]
                                    ELSE f.Config.Glyphs[i]]]
    /\ UNCHANGED <<variant, glLists, glMaxKey, released>>

\* f.Printf(x, y, str); e is the error its OpenGL calls raise
Printf(id, pt, str, e) ==
    /\ last = Idle
    /\ fonts[id] \notin {NoFont, NilFont}
    /\ LET f == fonts[id]
           args == [x |-> pt[1], y |-> pt[2], str |-> str]
           r == PrintfBody(variant, f, glLists, pt[1], pt[2], str)
           flag == IF r.calls = 0 THEN glError ELSE Raise(glError, e)
       IN  IF r.panic
           THEN /\ last' = Call("Printf", id, args, "panic", "nil", r.draws, r.calls, NoArgs)
                /\ glError' = flag
           ELSE /\ last' = Call("Printf", id, args, "ok", checkGLError(flag), r.draws,
                                r.calls + 1, [errno |-> flag])
                /\ glError' = NO_ERROR
    /\ UNCHANGED <<variant, fonts, glLists, glMaxKey, released>>

\* the caller takes the result of the finished call and goes on
Return ==
    /\ last # Idle
    /\ last' = Idle
    /\ UNCHANGED <<variant, fonts, glError, glLists, glMaxKey, released>>

Next ==
    \/ Return
    \/ \E id \in FontIds, stream \in Streams, low \in Lows, e \in GLErrnos :
          \E high \in low..(low + MaxSpan) : LoadTruetype(id, stream, low, high, e)
    \/ \E id \in FontIds, e \in GLErrnos : DefaultFont(id, e)
    \/ \E id \in FontIds, e \in GLErrnos : Release(id, e)
    \/ \E id \in FontIds, text \in Texts : Metrics(id, text)
    \/ \E id \in FontIds, pt \in Points, str \in Texts, e \in GLErrnos : Printf(id, pt, str, e)

Spec == Init /\ [][Next]_vars

----------------------------------------------------------------------------
(* Pow2 on its own: the argument is drawn around every power of two. *)

Pow2Inputs ==
    {[hi |-> 0, lo |-> n] : n \in 0..(2 * Pow2Spread + 1)}
    \cup {[hi |-> 0, lo |-> 2 ^ k + d] :
             k \in 2..14, d \in (0 - Pow2Spread)..Pow2Spread}
    \cup {[hi |-> 0, lo |-> Word - d] : d \in 1..(Pow2Spread + 1)}
    \cup {[hi |-> 2 ^ k, lo |-> d] : k \in 0..15, d \in 0..Pow2Spread}
    \cup {[hi |-> 2 ^ k - 1, lo |-> Word - d] : k \in 1..16, d \in 1..Pow2Spread}
    \cup {[hi |-> 2 ^ 15 + 1, lo |-> 5]}

InitPow2 ==
    /\ variant = "bitmap"
    /\ fonts = [id \in FontIds |-> NoFont]
    /\ glError = NO_ERROR
    /\ glLists = <<>>
    /\ glMaxKey = 0
    /\ released = {}
    /\ \E x \in Pow2Inputs :
          last = Call("none", 0, [x |-> x], "ok", "nil", <<>>, 0, NoArgs)

CallPow2 ==
    /\ last.op = "none"
    /\ last' = Call("Pow2", 0, last.args, "ok", "nil", <<>>, 0, Pow2(last.args.x))
    /\ UNCHANGED <<variant, fonts, glError, glLists, glMaxKey, released>>

NextPow2 == CallPow2

SpecPow2 == InitPow2 /\ [][NextPow2]_vars

----------------------------------------------------------------------------
(* Pure functions on their own: no font is loaded and OpenGL is untouched. *)

Quiet ==
    /\ variant = "bitmap"
    /\ fonts = [id \in FontIds |-> NoFont]
    /\ glError = NO_ERROR
    /\ glLists = <<>>
    /\ glMaxKey = 0
    /\ released = {}

\* the arguments of a call that has not run yet
Pending(args) == Call("none", 0, args, "ok", "nil", <<>>, 0, NoArgs)

\* the call has run and returned ret
Returned(op, ret) ==
    /\ last.op = "none"
    /\ last' = Call(op, 0, last.args, "ok", "nil", <<>>, 0, ret)
    /\ UNCHANGED <<variant, fonts, glError, glLists, glMaxKey, released>>

----------------------------------------------------------------------------
(* The bit packer of the whole-atlas loadFont (src/glsymbol.go, 209-220):  *)
(* the booleans of the whole sprite sheet go into f.letters.               *)

\* a packer that sets the bit of a true boolean
RECURSIVE PackBitsPlain(_, _, _)
PackBitsPlain(bits, i, u) ==
    IF i >= Len(bits) THEN <<>>
    ELSE LET h == i % 8
             u2 == IF bits[i + 1] THEN BitOr(u, 2 ^ (7 - h)) ELSE u
         IN  IF h = 7 \/ i = Len(bits) - 1
             THEN <<u2>> \o PackBitsPlain(bits, i + 1, 0)
             ELSE PackBitsPlain(bits, i + 1, u2)

\* the loop  for i := range bits  from index i on, u being the byte being
\* filled: the bytes appended to f.letters
RECURSIVE PackBits(_, _, _)
PackBits(bits, i, u) ==
    IF i >= Len(bits) THEN <<>>
    ELSE LET h == i % 8
             u2 == IF ~bits[i + 1] THEN BitOr(u, 2 ^ (7 - h)) ELSE u
         IN  IF h = 7 \/ i = Len(bits) - 1
             THEN <<u2>> \o PackBits(bits, i + 1, 0)
             ELSE PackBits(bits, i + 1, u2)

\* f.letters before the padding is appended
letters(bits) == PackBits(bits, 0, 0)

BitSeqs == UNION {[1..n -> BOOLEAN] : n \in 0..MaxBits}

InitBits == Quiet /\ \E bits \in BitSeqs : last = Pending([bits |-> bits])

CallBits == Returned("letters", letters(last.args.bits))

NextBits == CallBits

SpecBits == InitBits /\ [][NextBits]_vars

----------------------------------------------------------------------------
(* IsPow2 on its own, on the arguments Pow2 is tried on. *)

RECURSIVE BitAnd(_, _)
BitAnd(a, b) ==
    IF a = 0 \/ b = 0 THEN 0
    ELSE (IF a % 2 = 1 /\ b % 2 = 1 THEN 1 ELSE 0) + 2 * BitAnd(a \div 2, b \div 2)

\* (x & (x - 1)) == 0
IsPow2(x) ==
    LET d == Dec32(x)
    IN  BitAnd(x.hi, d.hi) = 0 /\ BitAnd(x.lo, d.lo) = 0

InitIsPow2 == Quiet /\ \E x \in Pow2Inputs : last = Pending([x |-> x])

CallIsPow2 == Returned("IsPow2", IsPow2(last.args.x))

NextIsPow2 == CallIsPow2

SpecIsPow2 == InitIsPow2 /\ [][NextIsPow2]_vars

----------------------------------------------------------------------------
(* LoadTruetype up to its call of loadFont, on its own: the sprite sheet   *)
(* and the glyph records for glyph counts up to MaxGlyphs.                 *)

LayoutInputs ==
    {[ttf |-> TTF(bw, bh, 0, 0), low |-> DefaultLow, high |-> DefaultLow + gc - 1] :
        bw \in 0..MaxBox, bh \in 0..MaxBox, gc \in 1..MaxGlyphs}

InitLayout == Quiet /\ \E in \in LayoutInputs : last = Pending(in)

\* img and fc as LoadTruetype hands them to loadFont
Layout ==
    Returned("Layout",
             [img |-> SpriteSheet(last.args.ttf, last.args.high - last.args.low + 1),
              fc |-> BuildConfig(last.args.ttf, last.args.low, last.args.high)])

NextLayout == Layout

SpecLayout == InitLayout /\ [][NextLayout]_vars

\* the cell (gx, gy) the loop drew the glyph at: Y = gy - gh/2
Cell(g) == [x |-> g.X, y |-> g.Y + (g.Height \div 2), w |-> g.Width, h |-> g.Height]

\* the coordinates img.At is called with while loadFont packs glyph g
Samples(g) ==
    {<<x + g.X, y + g.Y>> : x \in 0..(g.Width - 1), y \in 0..g.Height}

----------------------------------------------------------------------------
(* Properties. *)

IsLoad(c) == c.op \in {"LoadTruetype", "DefaultFont"}

\* fonts[id] is a Font whose Config is not nil
Usable(id) == fonts[id] \notin {NoFont, NilFont} /\ fonts[id].Config # Nil

\* the largest member of a non-empty set of integers
Largest(S) == CHOOSE m \in S : \A k \in S : k <= m

\* C1: after LoadTruetype(r, scale, low, high) succeeds, Glyphs has exactly
\* high-low+1 records and the record of EVERY rune low..high, high included,
\* has a packed, non-empty BitmapData.
C1_EveryGlyphPacked ==
    (IsLoad(last) /\ last.outcome = "ok" /\ last.err = "nil") =>
        LET c == last.ret.font.Config
        IN  /\ Len(c.Glyphs) = last.args.high - last.args.low + 1
            /\ \A ch \in last.args.low..last.args.high :
                  c.Glyphs[ch - last.args.low + 1].BitmapData # <<>>

\* the runes of str all lie in [Low, High) of the font
InRange(f, str) ==
    \A k \in 1..Len(str) : f.Config.Low <= str[k] /\ str[k] < f.Config.High

\* C2: on a loaded font whose glyphs are at least one pixel wide, and with
\* OpenGL raising no error, Printf of a string whose runes all lie in
\* [Low, High) does not panic and returns nil, however many fonts were
\* loaded and drawn before.
C2_PrintfInRange ==
    (/\ last.op = "Printf"
     /\ Usable(last.f)
     /\ InRange(fonts[last.f], last.args.str)
     /\ \A i \in 1..Len(fonts[last.f].Config.Glyphs) :
           fonts[last.f].Config.Glyphs[i].Width >= 1)
    => /\ last.outcome = "ok"
       /\ Len(last.draws) = Len(last.args.str)
       /\ last.ret.errno = NO_ERROR => last.err = "nil"

\* both fonts are loaded and a two-rune string in range has been drawn
C2_Witness ==
    /\ last.op = "Printf" /\ last.outcome = "ok" /\ last.err = "nil"
    /\ \A id \in FontIds : Usable(id)
    /\ InRange(fonts[last.f], last.args.str)
    /\ Len(last.args.str) = 2 /\ Len(last.draws) = 2
    /\ last.draws[1].w >= 1

\* C3: Printf renders a line break as a glyph: for any loaded font and any
\* string containing '\n' it issues one glyph draw per rune, all at the same
\* y, and returns normally.
C3_NewlineIsGlyph ==
    (/\ last.op = "Printf"
     /\ Usable(last.f)
     /\ \E k \in 1..Len(last.args.str) : last.args.str[k] = 10)
    => /\ last.outcome = "ok"
       /\ Len(last.draws) = Len(last.args.str)
       /\ \A k \in 1..Len(last.draws) : last.draws[k].y = last.draws[1].y

\* C4: once Release has returned on a font, no later Printf on that font
\* issues a glyph draw.
C4_NoDrawAfterRelease ==
    (last.op = "Printf" /\ last.f \in released) => last.draws = <<>>

\* Printf of a non-empty string was called on a released font
C4_Witness ==
    /\ last.op = "Printf" /\ last.f \in released
    /\ Len(last.args.str) > 0
    /\ last.outcome = "panic"

\* the ids loadFont reserved or compiled for font f of the display-list build
ListsOf(f) ==
    f.FontOffset..(f.FontOffset + GenListsRange - 1)
    \cup {f.FontOffset + j : j \in f.Config.Low..(f.Config.High - 1)}

\* C5: in the display-list build, when Release returns, every display list
\* loadFont reserved or compiled for the font has been deleted.
C5_ReleaseFreesLists ==
    [][\A id \in FontIds :
          (variant = "lists" /\ Usable(id) /\ id \notin released /\ id \in released')
          => \A k \in ListsOf(fonts[id]) : k \notin ListIds(glLists')]_vars

\* the width Metrics counts for rune r
RuneWidth(f, r) ==
    IF r \in f.Config.Low..(f.Config.Low + Len(f.Config.Glyphs) - 1)
    THEN f.Config.Glyphs[r - f.Config.Low + 1].Advance
    ELSE f.MaxGlyphWidth

\* the sum of RuneWidth over the first n runes of text
RECURSIVE WidthUpTo(_, _, _)
WidthUpTo(f, text, n) ==
    IF n = 0 THEN 0 ELSE WidthUpTo(f, text, n - 1) + RuneWidth(f, text[n])

\* C6: Metrics returns (0, 0) for the empty string; for a non-empty one the
\* height is MaxGlyphHeight and the width the sum, over its runes, of the
\* glyph's Advance for a rune with 0 <= r-Low < len(Glyphs) and of
\* MaxGlyphWidth for any other rune.
C6_Metrics ==
    (last.op = "Metrics") =>
        IF last.args.text = <<>>
        THEN last.outcome = "ok" /\ last.ret = <<0, 0>>
        ELSE Usable(last.f) =>
                /\ last.outcome = "ok"
                /\ last.ret = <<WidthUpTo(fonts[last.f], last.args.text,
                                          Len(last.args.text)),
                                fonts[last.f].MaxGlyphHeight>>

\* Metrics measured a string holding the rune Low and an unknown rune
C6_Witness ==
    /\ last.op = "Metrics" /\ last.outcome = "ok"
    /\ Usable(last.f)
    /\ Len(last.args.text) = 2
    /\ last.args.text[1] = fonts[last.f].Config.Low
    /\ last.args.text[2] < fonts[last.f].Config.Low
    /\ last.ret[1] > 0

\* C7: after a successful LoadTruetype with any low <= high, low = high
\* included, GlyphBounds returns the largest Width and the largest Height
\* over ALL glyph records.
C7_GlyphBoundsCoverAll ==
    (IsLoad(last) /\ last.outcome = "ok" /\ last.err = "nil") =>
        LET f == last.ret.font
            gs == f.Config.Glyphs
        IN  GlyphBounds(f) = <<Largest({gs[i].Width : i \in 1..Len(gs)}),
                               Largest({gs[i].Height : i \in 1..Len(gs)})>>

Zero32 == [hi |-> 0, lo |-> 0]
One32 == [hi |-> 0, lo |-> 1]
Top32 == [hi |-> 2 ^ 15, lo |-> 0]       \* 2^31

Leq32(a, b) == a.hi < b.hi \/ (a.hi = b.hi /\ a.lo <= b.lo)

IsPowerOfTwo(u) ==
    \/ u.hi = 0 /\ u.lo \in {2 ^ k : k \in 0..15}
    \/ u.lo = 0 /\ u.hi \in {2 ^ k : k \in 0..15}

Half32(u) == [hi |-> u.hi \div 2, lo |-> (u.lo \div 2) + (u.hi % 2) * (2 ^ 15)]

\* r is the smallest power of two that is >= x
FirstPow2AtLeast(x, r) ==
    /\ IsPowerOfTwo(r)
    /\ Leq32(x, r)
    /\ r = One32 \/ ~Leq32(x, Half32(r))

C9_FailedLoad ==
    [][(IsLoad(last') /\ last' # last
        /\ last'.args.stream.kind \in {"readErr", "parseErr"})
       => /\ last'.outcome = "ok"
          /\ last'.ret = [font |-> NilFont]
          /\ last'.err = last'.args.stream.kind
          /\ last'.calls = 0
          /\ fonts'[last'.f] = NilFont
          /\ <<glError, glLists, glMaxKey>>' = <<glError, glLists, glMaxKey>>]_vars

\* LoadTruetype was handed bytes that are not a TrueType font
C9_Witness ==
    /\ last.op = "LoadTruetype"
    /\ last.args.stream.kind = "parseErr"
    /\ last.err = "parseErr"

\* the Advance of the glyph of the k-th rune of str
AdvanceOf(f, str, k) == f.Config.Glyphs[str[k] - f.Config.Low + 1].Advance

RECURSIVE AdvanceBefore(_, _, _)
AdvanceBefore(f, str, k) ==
    IF k <= 1 THEN 0 ELSE AdvanceBefore(f, str, k - 1) + AdvanceOf(f, str, k - 1)

\* C10: Printf places each glyph at the start x plus the sum of the Advance
\* values of the glyphs drawn before it.
C10_LayoutByAdvance ==
    (last.op = "Printf" /\ last.outcome = "ok" /\ Usable(last.f)) =>
        \A k \in 1..Len(last.draws) :
            last.draws[k].x = Int32OfFloat(last.args.x)
                              + AdvanceBefore(fonts[last.f], last.args.str, k)

\* bit 7-b of byte u (b = 0 is the most significant bit)
BitSet(u, b) == (u \div (2 ^ (7 - b))) % 2 = 1

\* C11: the whole-atlas bit packer packs most-significant-bit first and
\* inverted: n booleans give ceil(n/8) bytes, bit 7-(i mod 8) of byte i div 8
\* is 1 exactly when bits[i] is false, and the unused bits of the last byte
\* are 0.
C11_BitsPacked ==
    (last.op = "letters") =>
        LET bits == last.args.bits
            n == Len(bits)
            out == last.ret
        IN  /\ Len(out) = (n + 7) \div 8
            /\ \A j \in 1..Len(out) :
                  /\ out[j] \in 0..255
                  /\ \A b \in 0..7 :
                        BitSet(out[j], b) <=>
                            (8 * (j - 1) + b < n /\ ~bits[8 * (j - 1) + b + 1])

\* nine booleans, the first and the last false, were packed into two bytes
C11_Witness ==
    /\ last.op = "letters"
    /\ Len(last.args.bits) = 9
    /\ last.args.bits = [i \in 1..9 |-> i \notin {1, 9}]
    /\ last.ret = <<128, 128>>

\* C12: for every uint32 x, IsPow2(x) is true if and only if x = 2^k for
\* some k in 0..31.
C12_IsPow2Exact ==
    (last.op = "IsPow2") => (last.ret <=> IsPowerOfTwo(last.args.x))

\* the decimal digits of a natural number
RECURSIVE Decimal(_)
Decimal(n) ==
    IF n < 10 THEN <<n>> ELSE Append(Decimal(n \div 10), n % 10)

Digit(d) ==
    CASE d = 0 -> "0" [] d = 1 -> "1" [] d = 2 -> "2" [] d = 3 -> "3"
      [] d = 4 -> "4" [] d = 5 -> "5" [] d = 6 -> "6" [] d = 7 -> "7"
      [] d = 8 -> "8" [] OTHER -> "9"

RECURSIVE Spell(_)
Spell(ds) == IF ds = <<>> THEN "" ELSE Digit(Head(ds)) \o Spell(Tail(ds))

\* C13: Printf and loadFont return nil exactly when gl.GetError() yields
\* NO_ERROR at the end of the call and otherwise the error "GL error: <code>"
\* with the code gl.GetError() yielded; Printf of the empty string makes no
\* glyph draw and returns the same check.
C13_ReportsGLError ==
    /\ (last.op \in {"Printf", "LoadTruetype", "DefaultFont"} /\ last.outcome = "ok"
         /\ last.ret # [font |-> NilFont])
        => /\ last.err = "nil" <=> last.ret.errno = NO_ERROR
           /\ last.ret.errno # NO_ERROR
                 => last.err = "GL error: " \o Spell(Decimal(last.ret.errno))
    /\ (last.op = "Printf" /\ last.args.str = <<>>)
        => last.outcome = "ok" /\ last.draws = <<>>

\* Printf of the empty string returned the error OpenGL had pending
C13_Witness ==
    /\ last.op = "Printf" /\ last.args.str = <<>> /\ last.outcome = "ok"
    /\ last.ret.errno = 1282
    /\ last.err = "GL error: 1282"

\* the rectangle [x, x+w) x [y, y+h) lies inside the image
InsideImage(img, c) ==
    /\ 0 <= c.x /\ c.x + c.w <= img.w
    /\ 0 <= c.y /\ c.y + c.h <= img.h

\* C14: the sprite sheet LoadTruetype creates holds every cell the layout
\* loop assigns: with iw = Pow2(16*gw) and ih = Pow2(gh*(gc/16+1)) every
\* cell [gx, gx+gw) x [gy, gy+gh) of a font with gw, gh >= 1 lies inside
\* [0, iw) x [0, ih).
C14_SheetHoldsCells ==
    (last.op = "Layout") =>
        \A i \in 1..Len(last.ret.fc.Glyphs) :
            (last.ret.fc.Glyphs[i].Width >= 1 /\ last.ret.fc.Glyphs[i].Height >= 1)
            => InsideImage(last.ret.img, Cell(last.ret.fc.Glyphs[i]))

\* C15: the layout loop puts at most 16 glyphs on a row: no more than 16
\* glyphs share a row offset gy and every X is one of 0, gw, ..., 15*gw.
C15_SixteenPerRow ==
    (last.op = "Layout") =>
        LET gs == last.ret.fc.Glyphs
        IN  \A i \in 1..Len(gs) :
               /\ Cardinality({j \in 1..Len(gs) : Cell(gs[j]).y = Cell(gs[i]).y}) <= 16
               /\ \E k \in 0..15 : gs[i].X = k * gs[i].Width

\* thirty-four glyphs were laid out and one row is full, from X = 0 to
\* X = 15*gw
C15_Witness ==
    /\ last.op = "Layout"
    /\ Len(last.ret.fc.Glyphs) = 34
    /\ last.ret.fc.Glyphs[1].Width = 3
    /\ last.ret.fc.Glyphs[17].X = 45
    /\ last.ret.fc.Glyphs[18].X = 0
    /\ Cardinality({j \in 1..34 :
            Cell(last.ret.fc.Glyphs[j]).y = Cell(last.ret.fc.Glyphs[17]).y}) = 16

\* the cells of two glyphs have a pixel in common
Overlap(c, d) ==
    /\ c.w > 0 /\ c.h > 0 /\ d.w > 0 /\ d.h > 0
    /\ c.x < d.x + d.w /\ d.x < c.x + c.w
    /\ c.y < d.y + d.h /\ d.y < c.y + c.h

\* C19 as stated: for ANY font and low <= high the layout loop gives
\* distinct glyph indices pairwise distinct cell origins (gx, gy), so that
\* their cells never overlap.
C19_DistinctOrigins ==
    (last.op = "Layout") =>
        LET gs == last.ret.fc.Glyphs
        IN  \A i, j \in 1..Len(gs) :
               i # j => /\ <<Cell(gs[i]).x, Cell(gs[i]).y>> # <<Cell(gs[j]).x, Cell(gs[j]).y>>
                        /\ ~Overlap(Cell(gs[i]), Cell(gs[j]))

\* C19 amended: the cells of distinct glyph indices never overlap, and when
\* the cell width gw is at least 1 their origins (gx, gy) are pairwise
\* distinct.
C19_DistinctCells ==
    (last.op = "Layout") =>
        LET gs == last.ret.fc.Glyphs
        IN  \A i, j \in 1..Len(gs) :
               i # j => /\ gs[i].Width >= 1 =>
                              <<Cell(gs[i]).x, Cell(gs[i]).y>> # <<Cell(gs[j]).x, Cell(gs[j]).y>>
                        /\ ~Overlap(Cell(gs[i]), Cell(gs[j]))

\* eighteen glyphs of width 2 were laid out: glyph 17 starts a row right
\* below glyph 1
C19_Witness ==
    /\ last.op = "Layout"
    /\ Len(last.ret.fc.Glyphs) = 18
    /\ last.ret.fc.Glyphs[1].Width = 2
    /\ Cell(last.ret.fc.Glyphs[18]).x = Cell(last.ret.fc.Glyphs[2]).x
    /\ Cell(last.ret.fc.Glyphs[18]).y = Cell(last.ret.fc.Glyphs[2]).y + last.ret.fc.Glyphs[2].Height

\* C20: the packer never samples outside the sprite sheet: for every glyph
\* loadFont packs, every (x+X, y+Y) with 0 <= x < Width, 0 <= y <= Height
\* lies inside [0, iw) x [0, ih); in particular Y >= 0 for every glyph.
C20_SamplesInside ==
    (last.op = "Layout") =>
        \A i \in 1..LoopCount(last.ret.fc) :
            /\ last.ret.fc.Glyphs[i].Y >= 0
            /\ \A p \in Samples(last.ret.fc.Glyphs[i]) :
                  /\ 0 <= p[1] /\ p[1] < last.ret.img.w
                  /\ 0 <= p[2] /\ p[2] < last.ret.img.h

\* a load has returned a font
Loaded == IsLoad(last) /\ last.outcome = "ok" /\ last.ret # [font |-> NilFont]

\* the number of bytes of one packed row of glyph g
RowBytes(g) == (g.Width + 7) \div 8

\* C16: the packed bitmap of every glyph loadFont processes has exactly
\* Height rows of exactly ceil(Width/8) bytes:
\* len(BitmapData) = Height * ceil(Width/8).
C16_BitmapSized ==
    Loaded =>
        LET c == last.ret.font.Config
        IN  \A i \in 1..LoopCount(c) :
               Len(c.Glyphs[i].BitmapData) = c.Glyphs[i].Height * RowBytes(c.Glyphs[i])

\* the sprite sheet of the load that has just returned
SheetOf(c) ==
    SpriteSheet(ParsedFont(c.args.stream), c.args.high - c.args.low + 1)

\* the k-th packed row (k = 0 first) of glyph g holds the pixels of row y of
\* its rectangle: bit 7-(x mod 8) of byte x div 8 is set exactly when the
\* red channel is above 40000, and the unused low bits are 0
RowHolds(img, g, k, y) ==
    \A n \in 0..(RowBytes(g) - 1) : \A b \in 0..7 :
        /\ k * RowBytes(g) + n + 1 <= Len(g.BitmapData)
        /\ BitSet(g.BitmapData[k * RowBytes(g) + n + 1], b)
              <=> (/\ 8 * n + b < g.Width
                   /\ RedAt(img, 8 * n + b + g.X, y + g.Y) > InkThreshold)

\* C17: in every packed row the pixel at column x sets bit 7-(x mod 8) of
\* byte x div 8 exactly when its red channel is > 40000, unused low bits
\* are 0, and the rows run from the largest y of the glyph's rectangle
\* (Height-1) down to the smallest (0).
C17_RowsPacked ==
    Loaded =>
        LET c == last.ret.font.Config
        IN  \A i \in 1..LoopCount(c) :
               \A k \in 0..(c.Glyphs[i].Height - 1) :
                   RowHolds(SheetOf(last), c.Glyphs[i], k, c.Glyphs[i].Height - 1 - k)

\* C18: Printf draws the string left to right: for a string whose runes lie
\* in [Low, High) the k-th rune (k = 0, 1, ... counted in runes) is drawn by
\* exactly one draw call at (int32(x) + Width*k, int32(y)), in string order.
C18_OneWidthApart ==
    (/\ last.op = "Printf"
     /\ Usable(last.f)
     /\ InRange(fonts[last.f], last.args.str)
     /\ \A i \in 1..Len(fonts[last.f].Config.Glyphs) :
           fonts[last.f].Config.Glyphs[i].Width >= 1)
    => /\ last.outcome = "ok"
       /\ Len(last.draws) = Len(last.args.str)
       /\ \A k \in 1..Len(last.draws) :
             LET g == fonts[last.f].Config.Glyphs[last.args.str[k] - fonts[last.f].Config.Low + 1]
             IN  /\ last.draws[k].x = Int32OfFloat(last.args.x) + g.Width * (k - 1)
                 /\ last.draws[k].y = Int32OfFloat(last.args.y)
                 /\ last.draws[k].data = g.BitmapData

\* C21: in the display-list build Release is idempotent: a second Release on
\* the same Font does not panic, deletes no further display list and leaves
\* the state as the first call left it.
C21_ReleaseIdempotent ==
    [][(variant = "lists" /\ last'.op = "Release" /\ last' # last
        /\ last'.f \in released)
       => /\ last'.outcome = "ok"
          /\ glLists' = glLists
          /\ fonts' = fonts
          /\ released' = released]_vars

\* C22: Printf is read-only on the font: a Printf with any string and
\* coordinates leaves Low, High, every glyph's X, Y, Width, Height, Advance
\* and BitmapData and MaxGlyphWidth/MaxGlyphHeight of every font (and the
\* display lists) unchanged, so that the same Printf made again issues the
\* same raster positions and bitmaps.
C22_PrintfReadOnly ==
    [][(last'.op = "Printf" /\ last' # last)
       => /\ fonts' = fonts
          /\ glLists' = glLists
          /\ PrintfBody(variant', fonts'[last'.f], glLists', last'.args.x, last'.args.y,
                        last'.args.str).draws = last'.draws]_vars

\* Printf has drawn rune 32 twice from a font whose glyph 32 is packed
C22_Witness ==
    /\ last.op = "Printf" /\ last.outcome = "ok"
    /\ last.args.str = <<32, 32>>
    /\ Len(last.draws) = 2
    /\ last.draws[1].data # <<>>
    /\ last.draws[2].data = last.draws[1].data
    /\ Usable(last.f)
    /\ fonts[last.f].Config.Glyphs[1].BitmapData = last.draws[1].data

====
